---- MODULE Spec2Model ----
(***************************************************************************)
(* Model of models/user_model.go: the user data-access layer.              *)
(*                                                                         *)
(* The table `users` is the shared state.  Every exported function is a    *)
(* sequence of database statements; each statement is one atomic step, and *)
(* the steps of concurrent callers interleave (the functions take no lock  *)
(* and open no transaction).  A statement of the step may fail with a      *)
(* database error when the parameter `fail` is TRUE.                       *)
(***************************************************************************)
EXTENDS Integers, Sequences, FiniteSets, TLC

\* ------------------------------------------------------------------ bounds
\* Number of calls made in a run, over all callers.
MaxCalls == 3

\* Concurrent callers.
Procs == {"p1", "p2"}

\* ------------------------------------------------------------- input values
Names == {"", "ann"}
Emails == {"", "a@x", "b@x"}
ShortPassword == <<"p", "w", "1", "2", "3">>
GoodPassword == <<"s", "e", "c", "r", "e", "t">>
OtherPassword == <<"h", "u", "n", "t", "e", "r", "2">>
Passwords == {<< >>, ShortPassword, GoodPassword, OtherPassword}
\* null.String: the invalid (NULL) value, or a valid string.
NullToken == "<NULL>"
Tokens == {"tok"}
\* The ids passed by callers: every id the storage can have assigned by then.
UserIds == 1..(MaxCalls - 1)

\* Minimum password length accepted by validateUserData.
MinPasswordLen == 6

\* ------------------------------------------------------------------ errors
NoErr == "nil"
ErrNameEmpty == "User name cannot be empty!"
ErrEmailEmpty == "User e-mail cannot be empty!"
ErrPasswordEmpty == "User password cannot be empty!"
ErrPasswordShort == "User password must be at least 6 characters!"
ErrEmailTaken == "There is already a registered user with this email, try another email!"
ErrNotFoundByEmail == "not found user by e-mail"
ErrPasswordMismatch == "password don't match"
ErrNotFoundUser == "not found user"
ErrNoAffected == "no affected lines"
\* sql.ErrNoRows, as returned by One and FindUser.
ErrNoRows == "sql: no rows in result set"
\* Any other error of the database driver.
ErrDB == "database error"

\* ------------------------------------------------------------ schema.User
\* A schema.User value; a column not selected or not set holds its zero value.
User(id, name, email, password, token) ==
    [id |-> id, name |-> name, email |-> email, password |-> password, token |-> token]

ZeroUser == User(0, "", "", << >>, NullToken)

\* A function's locals between two statements: the schema.User it holds and
\* its email parameter (UpdateRefreshTokenByEmail).
Locals(u, email) == [u |-> u, email |-> email]

NoLocals == Locals(ZeroUser, "")

VARIABLES
    db,       \* the rows of table users: a set of schema.User, ids distinct
    nextId,   \* the id the storage assigns to the next inserted row
    pc,       \* pc[p]: the statement caller p executes next ("idle": none)
    loc,      \* loc[p]: the locals of the function p is in
    last,     \* the call that returned most recently, with what it returned
    calls,    \* the number of calls made so far
    fault     \* TRUE iff the statement of the latest step failed with ErrDB

vars == <<db, nextId, pc, loc, last, calls, fault>>

\* ----------------------------------------------------- database statements
\* Mutant of ExistsByEmail: the query filters on the wrong column.
ExistsByEmailWrongColumn(rows, email) == \E r \in rows : r.name = email

\* schema.Users(schema.UserWhere.Email.EQ(email)).Exists(...)
ExistsByEmail(rows, email) == \E r \in rows : r.email = email

\* The rows selected by `email=?`.
RowsByEmail(rows, email) == {r \in rows : r.email = email}

\* schema.FindUser(ctx, db, id): the rows with that primary key (none or one).
FindUser(rows, id) == {r \in rows : r.id = id}

\* schema.Users(UserWhere.RefreshToken.EQ(null.StringFrom(token))): NULL equals nothing.
RowsByToken(rows, token) == {r \in rows : r.token # NullToken /\ r.token = token}

\* `select id, name, email from users order by id desc`, first row.
LatestRow(rows) == {r \in rows : \A s \in rows : s.id <= r.id}

\* The projection of a row on the columns id, name, email.
SelectIdNameEmail(r) == User(r.id, r.name, r.email, << >>, NullToken)

\* The projection of a row on the column password.
SelectPassword(r) == User(0, "", "", r.password, NullToken)

\* The projection of a row on the column id.
SelectId(r) == User(r.id, "", "", << >>, NullToken)

\* user.Insert(ctx, db, boil.Infer()): the storage assigns the id.
InsertRow(rows, u, id) == rows \cup {[u EXCEPT !.id = id]}

\* Mutant of UpdateNameEmail: the update without its whitelist writes every
\* column of userToUpdate.
UpdateNameEmailNoWhitelist(rows, u) == {IF r.id = u.id THEN u ELSE r : r \in rows}

\* userToUpdate.Update(ctx, db, boil.Whitelist("name", "email")):
\* UPDATE users SET name=?, email=? WHERE id=?
UpdateNameEmail(rows, u) ==
    {IF r.id = u.id THEN [r EXCEPT !.name = u.name, !.email = u.email] ELSE r : r \in rows}

\* Mutant of UpdateToken: the update without its whitelist writes every column
\* of user, which holds the id and the token only.
UpdateTokenNoWhitelist(rows, u) == {IF r.id = u.id THEN u ELSE r : r \in rows}

\* user.Update(ctx, db, boil.Whitelist("refresh_token")):
\* UPDATE users SET refresh_token=? WHERE id=?
UpdateToken(rows, u) ==
    {IF r.id = u.id THEN [r EXCEPT !.token = u.token] ELSE r : r \in rows}

\* user.Delete(ctx, db): DELETE FROM users WHERE id=?
DeleteRow(rows, u) == {r \in rows : r.id # u.id}

\* Whether table users declares a unique index on email.  The table's
\* definition is not part of models/; the existence check of validateUserData
\* is the one enforcement of unique emails that is described.
UniqueIndexOnEmail == FALSE

\* The storage rejects a statement that would leave `rows` in the table.
RejectedByIndex(rows) ==
    UniqueIndexOnEmail /\ \E r \in rows, s \in rows : r # s /\ r.email = s.email

\* The affected-row count of an UPDATE or DELETE ... WHERE id=?
RowsAffected(rows, u) == Cardinality(FindUser(rows, u.id))

\* `if rowsAff < 0 { return 0, errors.New("no affected lines") }`
AffectedErr(rowsAff) == IF rowsAff < 0 THEN ErrNoAffected ELSE NoErr

\* ------------------------------------------------------- validateUserData
\* Mutant of FieldMessage: the length check is off by one.
FieldMessageOffByOne(u) ==
    IF u.name = "" THEN ErrNameEmpty
    ELSE IF u.email = "" THEN ErrEmailEmpty
    ELSE IF u.password = << >> THEN ErrPasswordEmpty
    ELSE IF Len(u.password) + 1 < MinPasswordLen THEN ErrPasswordShort
    ELSE ""

\* Lines 17-32: the checks of name, email and password, which run no query;
\* "" when all pass.
FieldMessage(u) ==
    IF u.name = "" THEN ErrNameEmpty
    ELSE IF u.email = "" THEN ErrEmailEmpty
    ELSE IF u.password = << >> THEN ErrPasswordEmpty
    ELSE IF Len(u.password) < MinPasswordLen THEN ErrPasswordShort
    ELSE ""

\* The message of validateUserData(user), "" when the validation passes.
\* `failed`: the Exists query returned an error, which the code discards
\* (existUser, _ := ...), leaving existUser false.
validateUserData(u, rows, failed) ==
    IF FieldMessage(u) # "" THEN FieldMessage(u)
    ELSE IF ~failed /\ ExistsByEmail(rows, u.email) THEN ErrEmailTaken
    ELSE ""

\* ------------------------------------------------------------------ calls
\* What is observed of a returned call: the function, its
\* arguments (u, email), the error, the boolean, the affected-row count and the
\* user(s) returned; rep: the call repeats the call that returned before it,
\* with the same error.
Result(p, op, u, email, err, ok, rows, val) ==
    [op |-> op, u |-> u, email |-> email,
     err |-> err, ok |-> ok, rows |-> rows, val |-> val,
     rep |-> (last.op = op /\ last.u = u /\ last.email = email /\ last.err = err)]

\* Caller p's function returns.
Return(p, op, u, email, err, ok, rows, val) ==
    /\ last' = Result(p, op, u, email, err, ok, rows, val)
    /\ pc' = [pc EXCEPT ![p] = "idle"]
    /\ loc' = [loc EXCEPT ![p] = NoLocals]

\* Caller p goes on to its next statement.
Goto(p, label, u, email) ==
    /\ pc' = [pc EXCEPT ![p] = label]
    /\ loc' = [loc EXCEPT ![p] = Locals(u, email)]
    /\ UNCHANGED last

Init ==
    /\ db = {}
    /\ nextId = 1
    /\ pc = [p \in Procs |-> "idle"]
    /\ loc = [p \in Procs |-> NoLocals]
    /\ calls = 0
    /\ last = [op |-> "none", u |-> ZeroUser, email |-> "",
               err |-> NoErr, ok |-> FALSE, rows |-> 0, val |-> {}, rep |-> FALSE]
    /\ fault = FALSE

\* The users a caller may pass to NewUser (the storage assigns the id).
NewUserInputs ==
    {User(0, n, e, pw, NullToken) : n \in Names, e \in Emails, pw \in Passwords}

\* Caller p makes a call.
Call(p) ==
    /\ pc[p] = "idle"
    /\ calls < MaxCalls
    /\ calls' = calls + 1

\* NewUser, lines 69-72: validateUserData(user).
NewUserValidate(p, u, fail) ==
    /\ Call(p)
    \* the Exists query runs, and may fail, only after the field checks
    /\ fault' = (fail /\ FieldMessage(u) = "")
    /\ UNCHANGED <<db, nextId>>
    /\ LET msg == validateUserData(u, db, fail) IN
       IF msg # ""
       THEN Return(p, "NewUser", u, "", msg, FALSE, 0, {})
       ELSE Goto(p, "NewUser_insert", u, "")

\* NewUser, lines 74-79: user.Insert.
NewUserInsert(p, fail) ==
    /\ pc[p] = "NewUser_insert"
    /\ UNCHANGED calls
    /\ LET failed == fail \/ RejectedByIndex(InsertRow(db, loc[p].u, nextId)) IN
       /\ fault' = failed
       /\ IF failed
          THEN /\ UNCHANGED <<db, nextId>>
               /\ Return(p, "NewUser", loc[p].u, "", ErrDB, FALSE, 0, {})
          ELSE /\ db' = InsertRow(db, loc[p].u, nextId)
               /\ nextId' = nextId + 1
               \* Insert sets user.ID to the id the storage assigned
               /\ Goto(p, "NewUser_reread", [loc[p].u EXCEPT !.id = nextId], "")

\* NewUser, lines 81-88: re-read the row with the greatest id.
NewUserReread(p, fail) ==
    /\ pc[p] = "NewUser_reread"
    /\ UNCHANGED calls
    /\ fault' = fail
    /\ UNCHANGED <<db, nextId>>
    /\ IF fail
       THEN Return(p, "NewUser", loc[p].u, "", ErrDB, FALSE, 0, {})
       ELSE IF LatestRow(db) = {}
       THEN Return(p, "NewUser", loc[p].u, "", ErrNoRows, FALSE, 0, {})
       ELSE Return(p, "NewUser", loc[p].u, "", NoErr, TRUE, 0,
                   {SelectIdNameEmail(r) : r \in LatestRow(db)})

\* Authenticate, lines 45-65: one SELECT password ... WHERE email=?
Authenticate(p, email, password, fail) ==
    /\ Call(p)
    /\ fault' = fail
    /\ UNCHANGED <<db, nextId>>
    /\ IF fail
       THEN Return(p, "Authenticate", User(0, "", "", password, NullToken), email,
                   ErrDB, FALSE, 0, {})
       ELSE IF RowsByEmail(db, email) = {}
       THEN Return(p, "Authenticate", User(0, "", "", password, NullToken), email,
                   ErrNotFoundByEmail, FALSE, 0, {})
       ELSE \E r \in RowsByEmail(db, email) :
              LET user == SelectPassword(r) IN
              IF password # user.password
              THEN Return(p, "Authenticate", User(0, "", "", password, NullToken), email,
                          ErrPasswordMismatch, FALSE, 0, {})
              ELSE Return(p, "Authenticate", User(0, "", "", password, NullToken), email,
                          NoErr, TRUE, 0, {})

\* GetAllUsers, lines 92-100.
GetAllUsers(p, fail) ==
    /\ Call(p)
    /\ fault' = fail
    /\ UNCHANGED <<db, nextId>>
    /\ IF fail
       THEN Return(p, "GetAllUsers", ZeroUser, "", ErrDB, FALSE, 0, {})
       ELSE Return(p, "GetAllUsers", ZeroUser, "", NoErr, TRUE, 0, db)

\* GetUserByID, lines 103-111.
GetUserByID(p, userId, fail) ==
    /\ Call(p)
    /\ fault' = fail
    /\ UNCHANGED <<db, nextId>>
    /\ LET arg == User(userId, "", "", << >>, NullToken) IN
       IF fail
       THEN Return(p, "GetUserByID", arg, "", ErrDB, FALSE, 0, {})
       ELSE IF FindUser(db, userId) = {}
       THEN Return(p, "GetUserByID", arg, "", ErrNoRows, FALSE, 0, {})
       ELSE Return(p, "GetUserByID", arg, "", NoErr, TRUE, 0,
                   {SelectIdNameEmail(r) : r \in FindUser(db, userId)})

\* GetUserByToken, lines 114-122.
GetUserByToken(p, refreshToken, fail) ==
    /\ Call(p)
    /\ fault' = fail
    /\ UNCHANGED <<db, nextId>>
    /\ LET arg == User(0, "", "", << >>, refreshToken) IN
       IF fail
       THEN Return(p, "GetUserByToken", arg, "", ErrDB, FALSE, 0, {})
       ELSE IF RowsByToken(db, refreshToken) = {}
       THEN Return(p, "GetUserByToken", arg, "", ErrNoRows, FALSE, 0, {})
       ELSE \E r \in RowsByToken(db, refreshToken) :
              Return(p, "GetUserByToken", arg, "", NoErr, TRUE, 0, {r})

\* The users a caller may pass to UpdateUser: any id, name and email, with the
\* columns the update must not write populated too.
UpdateUserInputs ==
    {User(id, n, e, ShortPassword, "tok") : id \in UserIds, n \in Names, e \in Emails}

\* UpdateUser, lines 126-130: user, _ := schema.FindUser(...); a failed query
\* leaves user nil.
UpdateUserFind(p, userToUpdate, fail) ==
    /\ Call(p)
    /\ fault' = fail
    /\ UNCHANGED <<db, nextId>>
    /\ IF fail \/ FindUser(db, userToUpdate.id) = {}
       THEN Return(p, "UpdateUser", userToUpdate, "", ErrNotFoundUser, FALSE, 0, {})
       ELSE Goto(p, "UpdateUser_update", userToUpdate, "")

\* UpdateUser, lines 132-145: the UPDATE and the affected-row check.
UpdateUserUpdate(p, fail) ==
    /\ pc[p] = "UpdateUser_update"
    /\ UNCHANGED calls
    /\ UNCHANGED nextId
    /\ LET failed == fail \/ RejectedByIndex(UpdateNameEmail(db, loc[p].u)) IN
       /\ fault' = failed
       /\ IF failed
          THEN /\ UNCHANGED db
               /\ Return(p, "UpdateUser", loc[p].u, "", ErrDB, FALSE, 0, {})
          ELSE LET rowsAff == RowsAffected(db, loc[p].u) IN
               /\ db' = UpdateNameEmail(db, loc[p].u)
               /\ IF AffectedErr(rowsAff) # NoErr
                  THEN Return(p, "UpdateUser", loc[p].u, "", AffectedErr(rowsAff),
                              FALSE, 0, {})
                  ELSE Return(p, "UpdateUser", loc[p].u, "", NoErr, TRUE, rowsAff, {})

\* UpdateRefreshTokenByEmail, lines 150-162: SELECT id ... WHERE email=?, then
\* user.RefreshToken = null.StringFrom(refreshToken).
UpdateRefreshTokenFind(p, email, refreshToken, fail) ==
    /\ Call(p)
    /\ fault' = fail
    /\ UNCHANGED <<db, nextId>>
    /\ LET arg == User(0, "", "", << >>, refreshToken) IN
       IF fail
       THEN Return(p, "UpdateRefreshTokenByEmail", arg, email, ErrDB, FALSE, 0, {})
       ELSE IF RowsByEmail(db, email) = {}
       THEN Return(p, "UpdateRefreshTokenByEmail", arg, email, ErrNotFoundByEmail,
                   FALSE, 0, {})
       ELSE \E r \in RowsByEmail(db, email) :
              Goto(p, "UpdateRefreshToken_update",
                   [SelectId(r) EXCEPT !.token = refreshToken], email)

\* UpdateRefreshTokenByEmail, lines 164-177: the UPDATE and the affected-row check.
UpdateRefreshTokenUpdate(p, fail) ==
    /\ pc[p] = "UpdateRefreshToken_update"
    /\ UNCHANGED calls
    /\ fault' = fail
    /\ UNCHANGED nextId
    /\ IF fail
       THEN /\ UNCHANGED db
            /\ Return(p, "UpdateRefreshTokenByEmail", loc[p].u, loc[p].email,
                      ErrDB, FALSE, 0, {})
       ELSE LET rowsAff == RowsAffected(db, loc[p].u) IN
            /\ db' = UpdateToken(db, loc[p].u)
            /\ IF AffectedErr(rowsAff) # NoErr
               THEN Return(p, "UpdateRefreshTokenByEmail", loc[p].u, loc[p].email,
                           AffectedErr(rowsAff), FALSE, 0, {})
               ELSE Return(p, "UpdateRefreshTokenByEmail", loc[p].u, loc[p].email,
                           NoErr, TRUE, rowsAff, {})

\* DeleteUserByID, lines 182-186: user, _ := schema.FindUser(...); a failed
\* query leaves user nil.
DeleteUserFind(p, userId, fail) ==
    /\ Call(p)
    /\ fault' = fail
    /\ UNCHANGED <<db, nextId>>
    /\ IF fail \/ FindUser(db, userId) = {}
       THEN Return(p, "DeleteUserByID", User(userId, "", "", << >>, NullToken), "",
                   ErrNotFoundUser, FALSE, 0, {})
       ELSE \E user \in FindUser(db, userId) : Goto(p, "DeleteUser_delete", user, "")

\* DeleteUserByID, lines 188-201: the DELETE and the affected-row check.
DeleteUserDelete(p, fail) ==
    /\ pc[p] = "DeleteUser_delete"
    /\ UNCHANGED calls
    /\ fault' = fail
    /\ UNCHANGED nextId
    /\ IF fail
       THEN /\ UNCHANGED db
            /\ Return(p, "DeleteUserByID", loc[p].u, "", ErrDB, FALSE, 0, {})
       ELSE LET rowsAff == RowsAffected(db, loc[p].u) IN
            /\ db' = DeleteRow(db, loc[p].u)
            /\ IF AffectedErr(rowsAff) # NoErr
               THEN Return(p, "DeleteUserByID", loc[p].u, "", AffectedErr(rowsAff),
                           FALSE, 0, {})
               ELSE Return(p, "DeleteUserByID", loc[p].u, "", NoErr, TRUE, rowsAff, {})

\* One statement of one caller; `fail`: the statement fails in the database.
Step(fail) ==
    \/ \E p \in Procs, u \in NewUserInputs : NewUserValidate(p, u, fail)
    \/ \E p \in Procs : NewUserInsert(p, fail)
    \/ \E p \in Procs : NewUserReread(p, fail)
    \/ \E p \in Procs, e \in Emails, pw \in Passwords : Authenticate(p, e, pw, fail)
    \/ \E p \in Procs : GetAllUsers(p, fail)
    \/ \E p \in Procs, id \in UserIds : GetUserByID(p, id, fail)
    \/ \E p \in Procs, t \in Tokens : GetUserByToken(p, t, fail)
    \/ \E p \in Procs, u \in UpdateUserInputs : UpdateUserFind(p, u, fail)
    \/ \E p \in Procs : UpdateUserUpdate(p, fail)
    \/ \E p \in Procs, e \in Emails, t \in Tokens : UpdateRefreshTokenFind(p, e, t, fail)
    \/ \E p \in Procs : UpdateRefreshTokenUpdate(p, fail)
    \/ \E p \in Procs, id \in UserIds : DeleteUserFind(p, id, fail)
    \/ \E p \in Procs : DeleteUserDelete(p, fail)

\* The database answers every statement.
Next == Step(FALSE)

Spec == Init /\ [][Next]_vars

\* The database may fail any statement.
NextFault == \E fail \in BOOLEAN : Step(fail)

SpecFault == Init /\ [][NextFault]_vars

\* ================================================================= claims
\* Kinds of step.  A call returns at its first statement; a call goes on to a
\* later statement; a caller executes its last statement.
CallReturns == calls' = calls + 1 /\ pc' = pc

CallGoes(p, label) == calls' = calls + 1 /\ pc[p] = "idle" /\ pc'[p] = label

Finishes(p, label) == pc[p] = label /\ pc'[p] = "idle"

\* The field checks of the data model: name and email non-empty, password of
\* at least 6 characters.
FieldsValid(u) == u.name # "" /\ u.email # "" /\ Len(u.password) >= 6

\* The message of the first failing field check, in the order name, email,
\* password-empty, password-length.
FirstFailingCheck(u) ==
    CASE u.name = "" -> ErrNameEmpty
      [] u.name # "" /\ u.email = "" -> ErrEmailEmpty
      [] u.name # "" /\ u.email # "" /\ Len(u.password) = 0 -> ErrPasswordEmpty
      [] OTHER -> ErrPasswordShort

\* C1: in every reachable state no two stored rows have the same email.
UniqueEmails == \A r \in db, s \in db : r.email = s.email => r = s

\* C2: when NewUser(u) returns without error, the record it returns is the row
\* this call inserted: it has the id the storage gave that row and u's name and
\* email, and a lookup of the returned id yields the same name and email.
NewUserReturnsInserted ==
    (last.op = "NewUser" /\ last.err = NoErr) =>
        /\ last.val # {}
        /\ \A got \in last.val :
              /\ got.id = last.u.id
              /\ got.name = last.u.name
              /\ got.email = last.u.email
              /\ \A r \in db : r.id = got.id => r.name = got.name /\ r.email = got.email

\* C3: a NewUser call whose name is empty, email is empty, password is empty or
\* password is shorter than 6 characters returns the message of the first
\* failing check (name, email, password-empty, password-length) and leaves the
\* stored users unchanged; no such call goes on to the insert.
ValidationRejects ==
    [][ /\ (CallReturns /\ last'.op = "NewUser" /\ ~FieldsValid(last'.u)) =>
              /\ last'.err = FirstFailingCheck(last'.u)
              /\ db' = db
              /\ nextId' = nextId
        /\ \A p \in Procs : CallGoes(p, "NewUser_insert") => FieldsValid(loc'[p].u)
      ]_vars

\* C3 witness: a call with a name, no email and a short password was rejected
\* for the email (the earlier check), with users stored.
ValidationRejectsWitness ==
    /\ last.op = "NewUser"
    /\ last.u.name # "" /\ last.u.email = "" /\ last.u.password = ShortPassword
    /\ last.err = ErrEmailEmpty
    /\ db # {}

\* C4: a NewUser call with valid fields and an email that a stored user has
\* returns the duplicate-email message and inserts nothing; the same call made
\* again returns the same message and again leaves the stored users unchanged.
DuplicateEmailRejected ==
    [][ /\ (CallReturns /\ last'.op = "NewUser" /\ FieldsValid(last'.u)) =>
              /\ \E r \in db : r.email = last'.u.email
              /\ last'.err = ErrEmailTaken
              /\ db' = db
              /\ nextId' = nextId
        /\ \A p \in Procs :
              CallGoes(p, "NewUser_insert") => ~ \E r \in db : r.email = loc'[p].u.email
        /\ (last.op = "NewUser" /\ last.err = ErrEmailTaken) =>
              /\ (CallReturns /\ last'.op = "NewUser" /\ last'.u = last.u) =>
                    last'.err = ErrEmailTaken /\ last'.rep /\ db' = db
              /\ \A p \in Procs :
                    ~ (CallGoes(p, "NewUser_insert") /\ loc'[p].u = last.u)
      ]_vars

\* C4 witness: the call that returned the duplicate-email message was made
\* again and returned it again.
DuplicateEmailRejectedWitness ==
    /\ last.op = "NewUser"
    /\ last.err = ErrEmailTaken
    /\ last.rep
    /\ \E r \in db : r.email = last.u.email

\* C5: Authenticate(email, password) returns (false, not found) when no stored
\* user has the email, (false, password mismatch) when a user with the email has
\* another password, and (true, nil) exactly when a user with the email has that
\* password; it never changes storage.
AuthenticateContract ==
    [][ (CallReturns /\ last'.op = "Authenticate") =>
            LET email == last'.email
                password == last'.u.password
            IN  /\ db' = db
                /\ nextId' = nextId
                /\ (~ \E r \in db : r.email = email) =>
                      (last'.err = ErrNotFoundByEmail /\ ~last'.ok)
                /\ (\E r \in db : r.email = email /\ r.password # password) =>
                      (last'.err = ErrPasswordMismatch /\ ~last'.ok)
                /\ (last'.ok /\ last'.err = NoErr) <=>
                      (\E r \in db : r.email = email /\ r.password = password)
      ]_vars

\* C6: the update statement of UpdateUser(u) sets the name and the email of the
\* row with u's id and changes nothing else: not that row's id, password or
\* refresh_token, and no other row; UpdateUser with an id no row has returns
\* the not-found error and leaves storage unchanged.
UpdateUserFrame ==
    [][ /\ \A p \in Procs :
              Finishes(p, "UpdateUser_update") =>
                  LET u == loc[p].u IN
                  /\ nextId' = nextId
                  /\ \A r \in db : r.id # u.id => r \in db'
                  /\ \A r \in db' : r.id # u.id => r \in db
                  /\ \A r \in db : r.id = u.id =>
                        [r EXCEPT !.name = u.name, !.email = u.email] \in db'
                  /\ \A r \in db' : r.id = u.id =>
                        /\ r.name = u.name /\ r.email = u.email
                        /\ \E old \in db : /\ old.id = u.id
                                           /\ old.password = r.password
                                           /\ old.token = r.token
        /\ (CallReturns /\ last'.op = "UpdateUser") =>
              /\ ~ \E r \in db : r.id = last'.u.id
              /\ last'.err = ErrNotFoundUser
              /\ db' = db /\ nextId' = nextId
        /\ \A p \in Procs :
              CallGoes(p, "UpdateUser_update") =>
                  /\ \E r \in db : r.id = loc'[p].u.id
                  /\ db' = db /\ nextId' = nextId
      ]_vars

\* C6 witness: an UpdateUser call with password and refresh_token populated
\* returned without error; the row has the new name (empty, which no insert
\* stores) and email, its own password and refresh_token, and another row is
\* stored.
UpdateUserFrameWitness ==
    /\ last.op = "UpdateUser" /\ last.err = NoErr /\ last.rows = 1
    /\ \E r \in db : /\ r.id = last.u.id
                     /\ r.name = last.u.name /\ r.email = last.u.email
                     /\ r.name = ""
                     /\ r.password # last.u.password /\ r.token # last.u.token
    /\ \E r \in db : r.id # last.u.id

\* C7: after DeleteUserByID(id) returns without error no row has that id and no
\* other row was removed; DeleteUserByID on an id no row has returns the
\* not-found error, also when the row went between its existence check and its
\* delete statement.
DeleteContract ==
    [][ /\ \A p \in Procs :
              Finishes(p, "DeleteUser_delete") =>
                  /\ (last'.err = NoErr) =>
                        /\ ~ \E r \in db' : r.id = loc[p].u.id
                        /\ \A r \in db : r.id # loc[p].u.id => r \in db'
                  /\ (~ \E r \in db : r.id = loc[p].u.id) => last'.err = ErrNotFoundUser
        /\ (CallReturns /\ last'.op = "DeleteUserByID") =>
              /\ ~ \E r \in db : r.id = last'.u.id
              /\ last'.err = ErrNotFoundUser
              /\ db' = db
      ]_vars

\* C8: a statement that fails in the database makes its function return the
\* storage error: the caller does not go on to a next statement, the error is
\* not reported as another one, and nothing is written.
StorageErrorsSurface ==
    [][ fault' =>
            /\ last'.err = ErrDB
            /\ \A p \in Procs : pc'[p] = pc[p] \/ pc'[p] = "idle"
            /\ db' = db
      ]_vars

\* C9: the update statement of UpdateRefreshTokenByEmail(email, token) sets the
\* refresh_token of the row found by email and changes no other column of it
\* and no other row; with an email no row has, the call returns the not-found
\* error and leaves storage unchanged.
UpdateTokenFrame ==
    [][ /\ \A p \in Procs :
              Finishes(p, "UpdateRefreshToken_update") =>
                  LET u == loc[p].u IN
                  /\ nextId' = nextId
                  /\ \A r \in db : r.id # u.id => r \in db'
                  /\ \A r \in db' : r.id # u.id => r \in db
                  /\ \A r \in db : r.id = u.id => [r EXCEPT !.token = u.token] \in db'
                  /\ \A r \in db' : r.id = u.id =>
                        /\ r.token = u.token
                        /\ \E old \in db : /\ old.id = u.id
                                           /\ old.name = r.name
                                           /\ old.email = r.email
                                           /\ old.password = r.password
        /\ (CallReturns /\ last'.op = "UpdateRefreshTokenByEmail") =>
              /\ ~ \E r \in db : r.email = last'.email
              /\ last'.err = ErrNotFoundByEmail
              /\ db' = db /\ nextId' = nextId
        /\ \A p \in Procs :
              CallGoes(p, "UpdateRefreshToken_update") =>
                  /\ \E r \in db : r.email = loc'[p].email /\ r.id = loc'[p].u.id
                  /\ loc'[p].u.token \in Tokens
                  /\ db' = db /\ nextId' = nextId
      ]_vars

\* C9 witness: an UpdateRefreshTokenByEmail call returned without error; the
\* row of that email holds the token and its name, email and password, and
\* another row, without a token, is stored.
UpdateTokenFrameWitness ==
    /\ last.op = "UpdateRefreshTokenByEmail" /\ last.err = NoErr /\ last.rows = 1
    /\ \E r \in db : /\ r.id = last.u.id
                     /\ r.email = last.email
                     /\ r.token = last.u.token
                     /\ r.name # "" /\ r.password \in {GoodPassword, OtherPassword}
    /\ \E r \in db : r.id # last.u.id /\ r.token = NullToken

\* C10: whenever UpdateUser, UpdateRefreshTokenByEmail or DeleteUserByID returns
\* without error, the affected-row count it returns is exactly 1.
AffectedExactlyOne ==
    (/\ last.op \in {"UpdateUser", "UpdateRefreshTokenByEmail", "DeleteUserByID"}
     /\ last.err = NoErr)
        => last.rows = 1
====
